---- MODULE Spec2Model ----
(***************************************************************************)
(* Model of sl1codes/codes.py: the Class category enum, the Code value     *)
(* (construction, derived code, rich comparison), the Codes container      *)
(* (get_codes and the four dump_* generators) and the unique_codes class   *)
(* decorator.                                                              *)
(*                                                                         *)
(* Python values are records tagged with their type.  Optional[str] is a   *)
(* record [some, str]; a str name is the sequence of its characters, so    *)
(* that str.lower() is computed character by character.                    *)
(***************************************************************************)
EXTENDS Integers, Sequences, FiniteSets

VARIABLES
    \* ---- a class body being declared and then used (specification Spec)
    cls,        \* vars(cls) in declaration order: sequence of [item, var]
    phase,      \* "body" | "ready" | "invalid" | "aborted"
    exc,        \* the exception that ended the declaration, or NoExc
    returned,   \* <<>> or <<what unique_codes returned>>
    files,      \* per dump operation: <<>> or <<what its latest call wrote>>
    codes,      \* <<>> or <<what the latest get_codes() call returned>>
    scan,       \* unique_codes' loop when it ended: the used set and the
                \* number of items it had taken from get_codes()
    again,      \* the latest call repeated an operation called before
    \* ---- Code values on their own (specification SpecCode)
    lhs,        \* left operand: <<>> or <<a Python value>>
    rhs,        \* right operand: <<>> or <<a Python value>>
    last,       \* the latest Code(...) call: its arguments and its outcome
    cmp         \* the latest comparison: its operator and its outcome

vars == <<cls, phase, exc, returned, files, codes, scan, again, lhs, rhs, last, cmp>>
regVars == <<cls, phase, exc, returned, files, codes, scan, again>>
codeVars == <<lhs, rhs, last, cmp>>

(***************************************************************************)
(* Python values                                                           *)
(***************************************************************************)
None == [some |-> FALSE, str |-> ""]
Str(s) == [some |-> TRUE, str |-> s]

\* bool(message) as `if code.message:` evaluates it: None and "" are falsy
Truthy(m) == m.some /\ m.str # ""

\* class Class(IntEnum): the values of the five members
Class == [MECHANICAL |-> 1, TEMPERATURE |-> 2, ELECTRICAL |-> 3,
          CONNECTIVITY |-> 4, SYSTEM |-> 5]
ClassValues == {Class[n] : n \in DOMAIN Class}

\* a value that is not a Code: an int or None
PyInt(n) == [type |-> "int", value |-> n]
PyNone == [type |-> "NoneType"]

isinstance_Code(v) == v.type = "Code"

(***************************************************************************)
(* Code                                                                    *)
(***************************************************************************)
NoExc == [raised |-> "", what |-> "", value |-> 0, name |-> <<>>]
ValueError(what, value, name) ==
    [raised |-> "ValueError", what |-> what, value |-> value, name |-> name]

\* no Code(...) call and no comparison made yet
NoCall == [klass |-> 0, code |-> 0, message |-> None, exc |-> NoExc,
           obj |-> <<>>, called |-> FALSE]
NoCmp == [op |-> "", outcome |-> ""]

\* __init__ with the upper limit of the code off by one
Code__init__OffByOne(klass, code, message) ==
    IF klass < 0 \/ klass > 9
    THEN [exc |-> ValueError("Error class out of range", klass, <<>>), obj |-> <<>>]
    ELSE IF code < 0 \/ code > 100
    THEN [exc |-> ValueError("Error code out of range", code, <<>>), obj |-> <<>>]
    ELSE [exc |-> NoExc,
          obj |-> <<[type |-> "Code", _category |-> klass, _code |-> code,
                     _message |-> message]>>]

\* Code.__init__(cls, code, message): klass is cls.value, the int value of
\* the enum member passed as the category
Code__init__(klass, code, message) ==
    IF klass < 0 \/ klass > 9
    THEN [exc |-> ValueError("Error class out of range", klass, <<>>), obj |-> <<>>]
    ELSE IF code < 0 \/ code > 99
    THEN [exc |-> ValueError("Error code out of range", code, <<>>), obj |-> <<>>]
    ELSE [exc |-> NoExc,
          obj |-> <<[type |-> "Code", _category |-> klass, _code |-> code,
                     _message |-> message]>>]

\* the code property with the category scaled by ten
Code_codeTimesTen(self) == self._category * 10 + self._code

\* the code property
Code_code(self) == self._category * 100 + self._code

\* the message property
Code_message(self) == self._message

Bool(b) == IF b THEN "True" ELSE "False"

\* __lt__ ordering by the stored sub-code alone
Code__lt__BySubcode(self, other) ==
    IF ~isinstance_Code(other) THEN "NotImplemented"
    ELSE Bool(self._code < other._code)

\* __lt__ answering False, not NotImplemented, to a value that is no Code
Code__lt__SilentFalse(self, other) ==
    IF ~isinstance_Code(other) THEN "False"
    ELSE Bool(Code_code(self) < Code_code(other))

Code__lt__(self, other) ==
    IF ~isinstance_Code(other) THEN "NotImplemented"
    ELSE Bool(Code_code(self) < Code_code(other))

\* __eq__ comparing the whole objects, message included
Code__eq__WithMessage(self, other) ==
    IF ~isinstance_Code(other) THEN "NotImplemented"
    ELSE Bool(self = other)

Code__eq__(self, other) ==
    IF ~isinstance_Code(other) THEN "NotImplemented"
    ELSE Bool(Code_code(self) = Code_code(other))

\* object.__ne__: the inverse of __eq__ unless that is NotImplemented
Code__ne__(self, other) ==
    LET r == Code__eq__(self, other)
    IN IF r = "NotImplemented" THEN r ELSE Bool(r = "False")

\* the three methods functools.total_ordering derives from __lt__
Code__gt__(self, other) ==
    LET r == Code__lt__(self, other)
    IN IF r = "NotImplemented" THEN r
       ELSE Bool(r = "False" /\ Code__ne__(self, other) = "True")

Code__le__(self, other) ==
    LET r == Code__lt__(self, other)
    IN IF r = "NotImplemented" THEN r
       ELSE Bool(r = "True" \/ Code__eq__(self, other) = "True")

Code__ge__(self, other) ==
    LET r == Code__lt__(self, other)
    IN IF r = "NotImplemented" THEN r ELSE Bool(r = "False")

CmpOps == {"<", "<=", ">", ">=", "==", "!="}
Reflected(op) ==
    CASE op = "<" -> ">" [] op = ">" -> "<" [] op = "<=" -> ">="
      [] op = ">=" -> "<=" [] op = "==" -> "==" [] op = "!=" -> "!="

\* type(x).__op__(x, y): a Code answers with the methods above, an int or
\* None answers NotImplemented to an operand that is a Code
Method(op, x, y) ==
    IF ~isinstance_Code(x) THEN "NotImplemented"
    ELSE CASE op = "<" -> Code__lt__(x, y)
           [] op = "<=" -> Code__le__(x, y)
           [] op = ">" -> Code__gt__(x, y)
           [] op = ">=" -> Code__ge__(x, y)
           [] op = "==" -> Code__eq__(x, y)
           [] op = "!=" -> Code__ne__(x, y)

\* x op y as the interpreter evaluates it from the NotImplemented answers:
\* the method of x, then the reflected method of y; when both decline, ==
\* and != fall back to the identity of the two objects (a Code and a value
\* that is not a Code are two objects) and the ordering operators raise
Compare(op, x, y) ==
    LET r1 == Method(op, x, y)
        r2 == Method(Reflected(op), y, x)
    IN IF r1 # "NotImplemented" THEN r1
       ELSE IF r2 # "NotImplemented" THEN r2
       ELSE IF op = "==" THEN "False"
       ELSE IF op = "!=" THEN "True"
       ELSE "TypeError"

(***************************************************************************)
(* Codes and unique_codes                                                  *)
(***************************************************************************)
\* str.lower() on the characters the names are written with
LowerChar(c) ==
    CASE c = "F" -> "f" [] c = "O" -> "o" [] c = "B" -> "b"
      [] c = "A" -> "a" [] c = "R" -> "r" [] c = "Z" -> "z" [] OTHER -> c
lower(name) == [i \in DOMAIN name |-> LowerChar(name[i])]

\* Codes.get_codes(): the attributes of the class that are Codes, in order
get_codes(ns) == SelectSeq(ns, LAMBDA e : isinstance_Code(e.var))

\* d[k] = v on a dict kept as the sequence of its [key, value] in insertion
\* order: an existing key keeps its place and takes the new value
DictSet(d, k, v) ==
    IF \E i \in DOMAIN d : d[i].key = k
    THEN [i \in DOMAIN d |-> IF d[i].key = k THEN [key |-> k, value |-> v] ELSE d[i]]
    ELSE Append(d, [key |-> k, value |-> v])

\* the dict comprehension of dump_json over the first n items
RECURSIVE JsonObj(_, _)
JsonObj(items, n) ==
    IF n = 0 THEN <<>>
    ELSE DictSet(JsonObj(items, n - 1), lower(items[n].item),
                 [code |-> Code_code(items[n].var),
                  message |-> Code_message(items[n].var)])

\* what Codes.dump_json writes: the object json.dump serialises
dump_json(ns) == JsonObj(get_codes(ns), Len(get_codes(ns)))

\* a line of fixed text, and the lines written per item
Text(t) == [kind |-> "text", text |-> t, name |-> <<>>, code |-> 0, message |-> None]
EnumLine(name, code) ==
    [kind |-> "enum", text |-> "", name |-> name, code |-> code, message |-> None]
MapLine(code, message) ==
    [kind |-> "map", text |-> "", name |-> <<>>, code |-> code, message |-> message]
TrLine(message) ==
    [kind |-> "tr", text |-> "", name |-> <<>>, code |-> 0, message |-> message]

RECURSIVE EnumLines(_, _)
EnumLines(items, n) ==
    IF n = 0 THEN <<>>
    ELSE Append(EnumLines(items, n - 1),
                EnumLine(items[n].item, Code_code(items[n].var)))

\* what Codes.dump_cpp_enum writes
dump_cpp_enum(ns) ==
    <<Text("// Generated error code enum\n"), Text("enum class Errors {\n")>>
        \o EnumLines(get_codes(ns), Len(get_codes(ns)))
        \o <<Text("};\n")>>

RECURSIVE MapLines(_, _)
MapLines(items, n) ==
    IF n = 0 THEN <<>>
    ELSE IF Truthy(Code_message(items[n].var))
    THEN Append(MapLines(items, n - 1),
                MapLine(Code_code(items[n].var), Code_message(items[n].var)))
    ELSE MapLines(items, n - 1)

\* what Codes.dump_cpp_messages writes
dump_cpp_messages(ns) ==
    <<Text("// Generated error code to message mapping\n"),
      Text("static QMap<int, QString> error_messages{\n")>>
        \o MapLines(get_codes(ns), Len(get_codes(ns)))
        \o <<Text("};\n")>>

\* the loop of dump_cpp_ts without its `if code.message`
RECURSIVE TrLinesAll(_, _)
TrLinesAll(items, n) ==
    IF n = 0 THEN <<>>
    ELSE Append(TrLinesAll(items, n - 1), TrLine(Code_message(items[n].var)))

RECURSIVE TrLines(_, _)
TrLines(items, n) ==
    IF n = 0 THEN <<>>
    ELSE IF Truthy(Code_message(items[n].var))
    THEN Append(TrLines(items, n - 1), TrLine(Code_message(items[n].var)))
    ELSE TrLines(items, n - 1)

\* what Codes.dump_cpp_ts writes
dump_cpp_ts(ns) ==
    <<Text("// Generated translation string definitions for all defined error messages\n")>>
        \o TrLines(get_codes(ns), Len(get_codes(ns)))

\* the loop of unique_codes taking the items last to first
RECURSIVE unique_loopReversed(_, _, _)
unique_loopReversed(items, i, used) ==
    LET j == Len(items) + 1 - i
    IN IF i > Len(items)
       THEN [exc |-> NoExc, used |-> used, at |-> Len(items)]
       ELSE IF Code_code(items[j].var) \in used
       THEN [exc |-> ValueError("is deficit!", Code_code(items[j].var), items[j].item),
             used |-> used, at |-> i]
       ELSE unique_loopReversed(items, i + 1, used \cup {Code_code(items[j].var)})

\* the loop of unique_codes remembering the stored sub-code, not the code
RECURSIVE unique_loopBySubcode(_, _, _)
unique_loopBySubcode(items, i, used) ==
    IF i > Len(items)
    THEN [exc |-> NoExc, used |-> used, at |-> Len(items)]
    ELSE IF items[i].var._code \in used
    THEN [exc |-> ValueError("is deficit!", Code_code(items[i].var), items[i].item),
          used |-> used, at |-> i]
    ELSE unique_loopBySubcode(items, i + 1, used \cup {items[i].var._code})

\* the loop of unique_codes from its i-th item on, `used` holding the codes
\* of the items before it: how the loop ends
RECURSIVE unique_loop(_, _, _)
unique_loop(items, i, used) ==
    IF i > Len(items)
    THEN [exc |-> NoExc, used |-> used, at |-> Len(items)]
    ELSE IF Code_code(items[i].var) \in used
    THEN [exc |-> ValueError("is deficit!", Code_code(items[i].var), items[i].item),
          used |-> used, at |-> i]
    ELSE unique_loop(items, i + 1, used \cup {Code_code(items[i].var)})

(***************************************************************************)
(* Inputs of Spec: what a class body declares                              *)
(***************************************************************************)
MaxEntries == 3
Names == {<<"F", "O", "O">>, <<"f", "o", "o">>, <<"B", "A", "R">>, <<"B", "A", "Z">>}
DeclClasses == {Class.MECHANICAL, Class.SYSTEM}
DeclCodes == {1, 100}
Messages == {None, Str(""), Str("bad motor")}

DumpOps == {"dump_json", "dump_cpp_enum", "dump_cpp_messages", "dump_cpp_ts"}
NoFiles == [op \in DumpOps |-> <<>>]
NoScan == [used |-> {}, at |-> 0]

Init ==
    /\ cls = <<>> /\ phase = "body" /\ exc = NoExc /\ returned = <<>>
    /\ files = NoFiles /\ codes = <<>> /\ scan = NoScan /\ again = FALSE
    /\ lhs = <<>> /\ rhs = <<>> /\ last = NoCall /\ cmp = NoCmp

Declared == {cls[i].item : i \in DOMAIN cls}

\* NAME = Code(klass, code, message) in the class body: the attribute is
\* bound unless the constructor raises, which ends the declaration
Declare(name, klass, code, message) ==
    LET r == Code__init__(klass, code, message)
    IN /\ phase = "body"
       /\ Len(cls) < MaxEntries
       /\ name \notin Declared
       /\ IF r.exc.raised # ""
          THEN /\ phase' = "aborted"
               /\ exc' = r.exc
               /\ cls' = cls
          ELSE /\ cls' = Append(cls, [item |-> name, var |-> r.obj[1]])
               /\ UNCHANGED <<phase, exc>>
       /\ UNCHANGED <<returned, files, codes, scan, again>>
       /\ UNCHANGED codeVars

\* NAME = 101 in the class body: an attribute that is not a Code
DeclareOther(name, v) ==
    /\ phase = "body"
    /\ Len(cls) < MaxEntries
    /\ name \notin Declared
    /\ cls' = Append(cls, [item |-> name, var |-> v])
    /\ UNCHANGED <<phase, exc, returned, files, codes, scan, again>>
    /\ UNCHANGED codeVars

\* @unique_codes applied at the end of the class body
unique_codes ==
    LET r == unique_loop(get_codes(cls), 1, {})
    IN /\ phase = "body"
       /\ scan' = [used |-> r.used, at |-> r.at]
       /\ IF r.exc.raised # ""
          THEN phase' = "invalid" /\ exc' = r.exc /\ returned' = <<>>
          ELSE phase' = "ready" /\ exc' = NoExc /\ returned' = <<cls>>
       /\ UNCHANGED <<cls, files, codes, again>>
       /\ UNCHANGED codeVars

\* cls.get_codes()
CallGetCodes ==
    /\ phase = "ready"
    /\ codes' = <<get_codes(cls)>>
    /\ again' = (codes # <<>>)
    /\ UNCHANGED <<cls, phase, exc, returned, files, scan>>
    /\ UNCHANGED codeVars

\* a dump whose output grows with what it wrote before
WrittenAppending(op, text) ==
    /\ phase = "ready"
    /\ files' = [files EXCEPT ![op] = <<IF files[op] = <<>> THEN text
                                         ELSE files[op][1] \o text>>]
    /\ again' = (files[op] # <<>>)
    /\ UNCHANGED <<cls, phase, exc, returned, codes, scan>>
    /\ UNCHANGED codeVars

\* a dump_* call on the class, writing text to the file it is given
Written(op, text) ==
    /\ phase = "ready"
    /\ files' = [files EXCEPT ![op] = <<text>>]
    /\ again' = (files[op] # <<>>)
    /\ UNCHANGED <<cls, phase, exc, returned, codes, scan>>
    /\ UNCHANGED codeVars

\* the four dumps, each to a fresh file
CallDumpJson == Written("dump_json", dump_json(cls))
CallDumpCppEnum == Written("dump_cpp_enum", dump_cpp_enum(cls))
CallDumpCppMessages == Written("dump_cpp_messages", dump_cpp_messages(cls))
CallDumpCppTs == Written("dump_cpp_ts", dump_cpp_ts(cls))

Next ==
    \/ \E n \in Names, k \in DeclClasses, c \in DeclCodes, m \in Messages :
            Declare(n, k, c, m)
    \/ \E n \in Names : DeclareOther(n, PyInt(101))
    \/ unique_codes
    \/ CallGetCodes
    \/ CallDumpJson
    \/ CallDumpCppEnum
    \/ CallDumpCppMessages
    \/ CallDumpCppTs

Spec == Init /\ [][Next]_vars

(***************************************************************************)
(* Inputs of SpecCode                                                      *)
(***************************************************************************)
\* cls.value of the category argument: the members of Class and members of
\* other enums, inside and outside 0..9
KlassArgs == {-1, 0, 1, 5, 9, 10}
CodeArgs == {-1, 0, 99, 100}
MessageArgs == {None, Str("bad motor")}
NonCodes == {PyInt(101), PyNone}

InitCode ==
    /\ cls = <<>> /\ phase = "body" /\ exc = NoExc /\ returned = <<>>
    /\ files = NoFiles /\ codes = <<>> /\ scan = NoScan /\ again = FALSE
    /\ lhs = <<>> /\ rhs = <<>> /\ last = NoCall /\ cmp = NoCmp

\* x = Code(klass, code, message), x being lhs or rhs
NewCode(left, klass, code, message) ==
    LET r == Code__init__(klass, code, message)
    IN /\ last' = [klass |-> klass, code |-> code, message |-> message,
                   exc |-> r.exc, obj |-> r.obj, called |-> TRUE]
       /\ cmp' = NoCmp
       /\ IF r.exc.raised # ""
          THEN UNCHANGED <<lhs, rhs>>
          ELSE IF left THEN lhs' = r.obj /\ rhs' = rhs
               ELSE rhs' = r.obj /\ lhs' = lhs
       /\ UNCHANGED regVars

\* rhs = 101 or rhs = None (or lhs)
NewOther(left, v) ==
    /\ IF left THEN lhs' = <<v>> /\ rhs' = rhs ELSE rhs' = <<v>> /\ lhs' = lhs
    /\ last' = NoCall
    /\ cmp' = NoCmp
    /\ UNCHANGED regVars

\* lhs op rhs, at least one of the two a Code
DoCompare(op) ==
    /\ lhs # <<>> /\ rhs # <<>>
    /\ isinstance_Code(lhs[1]) \/ isinstance_Code(rhs[1])
    /\ cmp' = [op |-> op, outcome |-> Compare(op, lhs[1], rhs[1])]
    /\ last' = NoCall
    /\ UNCHANGED <<lhs, rhs>>
    /\ UNCHANGED regVars

NextCode ==
    \/ \E left \in BOOLEAN, k \in KlassArgs, c \in CodeArgs, m \in MessageArgs :
            NewCode(left, k, c, m)
    \/ \E left \in BOOLEAN, v \in NonCodes : NewOther(left, v)
    \/ \E op \in CmpOps : DoCompare(op)

SpecCode == InitCode /\ [][NextCode]_vars

(***************************************************************************)
(* Properties of Code (checked under SpecCode)                             *)
(***************************************************************************)
L == lhs[1]
R == rhs[1]
BothCodes == lhs # <<>> /\ rhs # <<>> /\ isinstance_Code(L) /\ isinstance_Code(R)
OneNotCode == lhs # <<>> /\ rhs # <<>> /\ (~isinstance_Code(L) \/ ~isinstance_Code(R))
Compared == cmp.op # ""

\* every Code the constructor yields for the arguments of SpecCode
AllCodes ==
    {Code__init__(k, c, m).obj[1] :
        k \in KlassArgs \cap (0..9), c \in CodeArgs \cap (0..99), m \in MessageArgs}

\* C2: a Code(...) call raises (ValueError, the code's range error) and
\* yields no Code when the sub-code is outside 0..99 or the category value is
\* outside 0..9; for every member of Class and every sub-code in 0..99 it
\* yields a Code holding the three arguments.
C2_ConstructionRange ==
    last.called =>
       /\ (last.code \notin 0..99 \/ last.klass \notin 0..9)
             => last.exc.raised = "ValueError" /\ last.obj = <<>>
       /\ (last.klass \in ClassValues /\ last.code \in 0..99)
             => /\ last.exc.raised = ""
                /\ last.obj = <<[type |-> "Code", _category |-> last.klass,
                                 _code |-> last.code, _message |-> last.message]>>

C2_Witness ==
    /\ last.called /\ last.code = 100 /\ last.klass \in ClassValues
    /\ last.exc.raised = "ValueError"

\* C3 as stated: the code of a constructed Code is category * 100 + sub-code
\* and lies in 100..999.
C3_Original ==
    (last.called /\ last.obj # <<>>) =>
       /\ Code_code(last.obj[1]) = last.klass * 100 + last.code
       /\ Code_code(last.obj[1]) \in 100..999

\* C3 amended: the code of a constructed Code is category * 100 + sub-code,
\* whatever the message, and lies in 0..999; it is at least 100 exactly when
\* the category value is at least 1, and in 100..599 for a member of Class.
C3_CodeValue ==
    (last.called /\ last.obj # <<>>) =>
       /\ Code_code(last.obj[1]) = last.klass * 100 + last.code
       /\ Code_code(last.obj[1]) \in 0..999
       /\ Code_code(last.obj[1]) >= 100 <=> last.klass >= 1
       /\ last.klass \in ClassValues => Code_code(last.obj[1]) \in 100..599

C3_Witness ==
    /\ last.called /\ last.obj # <<>> /\ last.klass = 5 /\ last.code = 99
    /\ last.message # None /\ Code_code(last.obj[1]) = 599

\* C4: lhs == rhs between two Codes is True exactly when their codes are
\* equal, and != is its inverse; the messages play no part.
C4_EqualityByCode ==
    (Compared /\ BothCodes) =>
       /\ cmp.op = "==" =>
             cmp.outcome = Bool(L._category * 100 + L._code
                                  = R._category * 100 + R._code)
       /\ cmp.op = "!=" =>
             cmp.outcome = Bool(L._category * 100 + L._code
                                  # R._category * 100 + R._code)

C4_Witness ==
    /\ Compared /\ BothCodes /\ cmp.op = "==" /\ cmp.outcome = "True"
    /\ L._message = None /\ R._message # None

\* C5: lhs < rhs between two Codes is True exactly when the code of lhs is
\* smaller; with ==, the order is a strict total order (irreflexive,
\* antisymmetric, transitive, exactly one of <, ==, > between any two), and
\* the derived <=, >, >= agree with it.
C5_StrictTotalOrder ==
    BothCodes =>
       /\ (Compared /\ cmp.op = "<") =>
             cmp.outcome = Bool(L._category * 100 + L._code
                                  < R._category * 100 + R._code)
       /\ (Compared /\ cmp.op = "<=") =>
             cmp.outcome = Bool(Compare("<", L, R) = "True" \/ Compare("==", L, R) = "True")
       /\ (Compared /\ cmp.op = ">") => cmp.outcome = Compare("<", R, L)
       /\ (Compared /\ cmp.op = ">=") => cmp.outcome = Bool(Compare("<", L, R) = "False")
       /\ Compare("<", L, L) = "False"
       /\ ~(Compare("<", L, R) = "True" /\ Compare("<", R, L) = "True")
       /\ \A z \in AllCodes :
             (Compare("<", L, R) = "True" /\ Compare("<", R, z) = "True")
                => Compare("<", L, z) = "True"
       /\ Cardinality({o \in {"lt", "eq", "gt"} :
                          \/ o = "lt" /\ Compare("<", L, R) = "True"
                          \/ o = "eq" /\ Compare("==", L, R) = "True"
                          \/ o = "gt" /\ Compare("<", R, L) = "True"}) = 1

C5_Witness ==
    /\ Compared /\ BothCodes /\ cmp.op = "<" /\ cmp.outcome = "True"
    /\ L._code > R._code

\* C6 as stated: < and == between a Code and a value that is not a Code are
\* both a type error.
C6_Original ==
    (Compared /\ OneNotCode /\ cmp.op \in {"<", "=="}) => cmp.outcome = "TypeError"

\* C6 amended: between a Code and an int or None, on either side, the
\* ordering operators <, <=, >, >= raise TypeError, while == does not raise
\* and is False and != is True; between two Codes every operator yields
\* True or False.
C6_NonCodeOperand ==
    Compared =>
       /\ (OneNotCode /\ cmp.op \in {"<", "<=", ">", ">="}) => cmp.outcome = "TypeError"
       /\ (OneNotCode /\ cmp.op = "==") => cmp.outcome = "False"
       /\ (OneNotCode /\ cmp.op = "!=") => cmp.outcome = "True"
       /\ BothCodes => cmp.outcome \in {"True", "False"}

C6_Witness ==
    /\ Compared /\ cmp.op = "<" /\ cmp.outcome = "TypeError"
    /\ isinstance_Code(L) /\ R = PyInt(101)

(***************************************************************************)
(* Properties of Codes and unique_codes (checked under Spec)               *)
(***************************************************************************)
\* the entries of the registry, read off the class: its attributes that are
\* Codes, in declaration order, and the identifier of an entry
Entries == SelectSeq(cls, LAMBDA e : e.var.type = "Code")
Id(e) == e.var._category * 100 + e.var._code
IdsDistinct ==
    \A i, j \in DOMAIN Entries : i # j => Id(Entries[i]) # Id(Entries[j])

\* the first entry, in declaration order, whose identifier an earlier entry has
IsRepeat(i) == \E j \in 1..(i - 1) : Id(Entries[j]) = Id(Entries[i])
FirstRepeat == CHOOSE i \in DOMAIN Entries : IsRepeat(i) /\ \A k \in 1..(i - 1) : ~IsRepeat(k)

\* C1: unique_codes succeeds exactly when the identifiers of the entries are
\* pairwise distinct; it then returns the class it was given, and otherwise
\* raises (ValueError, the code's duplicate error); either way the class is
\* left as it was.
C1_UniqueIffDistinct ==
    /\ [](/\ phase = "ready" =>
               IdsDistinct /\ returned = <<cls>> /\ exc.raised = ""
          /\ phase = "invalid" =>
               ~IdsDistinct /\ returned = <<>> /\ exc.raised = "ValueError")
    /\ [][(phase = "body" /\ phase' \in {"ready", "invalid"}) => cls' = cls]_vars

C1_Witness ==
    /\ phase = "ready" /\ Len(Entries) = 2 /\ Len(cls) = 3 /\ returned = <<cls>>
    /\ \E i, j \in DOMAIN Entries : i # j /\ Entries[i].var._code = Entries[j].var._code

\* the lines a dump wrote per entry, without its fixed header and footer
EntryLines(out) == SelectSeq(out, LAMBDA l : l.kind # "text")
WithMessage == SelectSeq(Entries, LAMBDA e : e.var._message.some)
WithText == SelectSeq(Entries, LAMBDA e : e.var._message.some /\ e.var._message.str # "")

LinesAre(op, expected) ==
    files[op] # <<>> =>
       LET ls == EntryLines(files[op][1])
       IN /\ Len(ls) = Len(expected)
          /\ \A i \in DOMAIN ls :
                /\ ls[i].message = expected[i].var._message
                /\ op = "dump_cpp_messages" => ls[i].code = Id(expected[i])

\* C7 as stated: dump_cpp_messages and dump_cpp_ts write one line for every
\* entry whose message is not absent, in declaration order, and none other.
C7_Original ==
    /\ LinesAre("dump_cpp_messages", WithMessage)
    /\ LinesAre("dump_cpp_ts", WithMessage)

\* C7 amended: dump_cpp_messages and dump_cpp_ts write one line for every
\* entry whose message is neither absent nor the empty string, in
\* declaration order, and no line for any other entry.
C7_LinePerTruthyMessage ==
    /\ LinesAre("dump_cpp_messages", WithText)
    /\ LinesAre("dump_cpp_ts", WithText)

C7_Witness ==
    /\ files["dump_cpp_messages"] # <<>> /\ files["dump_cpp_ts"] # <<>>
    /\ Len(Entries) = 2 /\ Len(WithMessage) = 2 /\ Len(WithText) = 1
    /\ Len(EntryLines(files["dump_cpp_ts"][1])) = 1
    /\ Len(EntryLines(files["dump_cpp_messages"][1])) = 1

\* C8: the object dump_json writes has one member per entry, keyed by the
\* lower-cased name and holding that entry's identifier and message, so it
\* has as many keys as the registry has entries.
C8_JsonMemberPerEntry ==
    files["dump_json"] # <<>> =>
       LET obj == files["dump_json"][1]
       IN /\ Len(obj) = Len(Entries)
          /\ \A i \in DOMAIN Entries :
                \E m \in DOMAIN obj :
                   /\ obj[m].key = lower(Entries[i].item)
                   /\ obj[m].value.code = Id(Entries[i])
                   /\ obj[m].value.message = Entries[i].var._message

\* C9: once the class is declared, no dump_* or get_codes() call changes
\* it, and each of them yields what it yielded on its earlier calls.
C9_DumpsReadOnly ==
    [][phase = "ready" =>
          /\ cls' = cls /\ phase' = phase /\ returned' = returned
          /\ \A op \in DumpOps : files[op] # <<>> => files'[op] = files[op]
          /\ codes # <<>> => codes' = codes]_vars

C9_Witness ==
    /\ again /\ codes # <<>> /\ \A op \in DumpOps : files[op] # <<>>
    /\ Len(Entries) = 2 /\ Len(WithText) = 1 /\ Len(cls) = 3

\* C10: when unique_codes raises, it raises at the first entry, in
\* declaration order, whose identifier an earlier entry has: the error names
\* that entry and its identifier, and the loop has taken no entry after it.
C10_FirstRepeatReported ==
    phase = "invalid" =>
       /\ ~IdsDistinct
       /\ exc.name = Entries[FirstRepeat].item
       /\ exc.value = Id(Entries[FirstRepeat])
       /\ scan.at = FirstRepeat
       /\ scan.used = {Id(Entries[j]) : j \in 1..(FirstRepeat - 1)}

C10_Witness ==
    /\ phase = "invalid" /\ Len(Entries) = 3 /\ FirstRepeat = 2
    /\ IsRepeat(3) /\ exc.name = Entries[2].item /\ scan.at = 2

====
